---- MODULE Spec2Model ----
(***************************************************************************)
(* Joint training objective of MultiModalLitModel                          *)
(* (src/multimodal/multimodal_lit.py): calculate_joint_loss, the per-batch *)
(* combiner, and joint_loss_epoch_end, the epoch aggregator, driven by     *)
(* training_step / training_epoch_end and by the validation and test       *)
(* handlers, whose second dataloader feeds the evaluation-trial scorer.    *)
(* Also ImageUtteranceModel.compute_triplet_loss (src/train.py), step by   *)
(* step through its impostor-sampling loop, and _preprocess_utterance      *)
(* (src/multimodal_saycam/data/multimodal_data_module.py) from the pieces  *)
(* msplit gives on: its timestamps are integers, int() truncates toward 0. *)
(*                                                                         *)
(* Numbers are exact rationals <<n, d>> (d > 0, lowest terms) extended     *)
(* with the two IEEE specials the code can produce: Inf == <<1, 0>> and    *)
(* NaN == <<0, 0>>.  All quantities of the code are non-negative.          *)
(* A scalar is [v |-> number, tensor |-> BOOLEAN]: a torch tensor or a     *)
(* plain Python number (only a tensor has .item()).                        *)
(***************************************************************************)
EXTENDS Integers, Sequences, FiniteSets, TLC

\* ------------------------------------------------------------------ bounds
MaxLen == 2          \* positions of a label tensor
MaxCe == 1           \* largest token-wise cross-entropy value
MaxRecords == 3      \* batches of one epoch
MaxPermuted == 3     \* batches of an epoch whose records are permuted
MaxCandidates == 3   \* candidate images of one evaluation trial
MaxLoaders == 3      \* evaluation dataloaders of one run
MaxValBatches == 2   \* batches of one evaluation dataloader
MaxBatch == 4        \* examples of a batch of compute_triplet_loss
MaxPieces == 3       \* pieces msplit cuts an utterance into
MaxDuration == 22    \* largest end_timestamp - start_timestamp

\* ------------------------------------------------- reserved token ids
PAD_TOKEN_ID == 0
SOS_TOKEN_ID == 2
EOS_TOKEN_ID == 3
Tokens == {PAD_TOKEN_ID, SOS_TOKEN_ID, EOS_TOKEN_ID, 4}

\* ------------------------------------------------------ float arithmetic
RECURSIVE GCD(_, _)
GCD(a, b) == IF b = 0 THEN a ELSE GCD(b, a % b)

NaN == <<0, 0>>
Inf == <<1, 0>>
Zero == <<0, 1>>
Norm(n, d) ==
    IF d = 0 THEN (IF n = 0 THEN NaN ELSE Inf)
    ELSE LET g == GCD(n, d) IN <<n \div g, d \div g>>
Num(k) == <<k, 1>>
Frac(n, d) == Norm(n, d)

\* a + b on floats: NaN is absorbing, then Inf
Add(a, b) ==
    IF a = NaN \/ b = NaN THEN NaN
    ELSE IF a = Inf \/ b = Inf THEN Inf
    ELSE Norm(a[1] * b[2] + b[1] * a[2], a[2] * b[2])
\* a * b on floats: Inf * 0 = NaN
Mul(a, b) == Norm(a[1] * b[1], a[2] * b[2])
\* a / b on torch tensors: x / 0 = Inf for x > 0, 0 / 0 = NaN, never an error
TorchDiv(a, b) == Norm(a[1] * b[2], a[2] * b[1])

\* scalars: tensors and Python numbers
Tensor(v) == [v |-> v, tensor |-> TRUE]
PyNum(v) == [v |-> v, tensor |-> FALSE]
\* Python's * and + on a mix of floats and tensors: a tensor if either is
PyMul(a, b) == [v |-> Mul(a.v, b.v), tensor |-> a.tensor \/ b.tensor]
PyAdd(a, b) == [v |-> Add(a.v, b.v), tensor |-> a.tensor \/ b.tensor]

\* the outcome of a Python expression: a value or a raised exception
Ok(v) == [err |-> "none", v |-> v]
Raise(e) == [err |-> e, v |-> NaN]

\* ------------------------------------------------------------------ state
VARIABLES
    lambda_mm,          \* self.lambda_mm
    lambda_lm,          \* self.lambda_lm
    optimize_unused,    \* self.optimize_unused
    captioning,         \* self.language_model.text_encoder.captioning
    normalize_features, \* self.model.normalize_features
    outputs,            \* the records training_step returned this epoch; after an
                        \* evaluation epoch end, what joint_loss_epoch_end was given
    ret,                \* the record the last calculate_joint_loss returned
    logged,             \* the calls the last handler made to self.log
    calls,              \* the collaborator calls of the last calculate_joint_loss
    labels,             \* labels returned by the last calculate_ce_loss
    ce_loss,            \* token-wise loss returned by the last calculate_ce_loss
    masks,              \* the three values the local `mask` took
    pc,                 \* "training", "validation" or "test"; "epoch_end" once
                        \* the epoch-end handler ran, "aborted" once a step raised
    error,              \* the exception the last handler raised, or "none"
    n_loaders,          \* the number of evaluation dataloaders
    val_outputs,        \* per dataloader, what the evaluation steps returned
    trial,              \* the last evaluation trial: self.model's logits, and y
    pred,               \* the pred of the last scored trial (0-based), or NoPred
    batch_size,         \* compute_triplet_loss: image_embeddings.size(0)
    ex,                 \* compute_triplet_loss: the i of its for loop
    imp_idx,            \* compute_triplet_loss: imp_idx
    triplets,           \* per example done, its image and utterance impostors
    tpc,                \* where compute_triplet_loss stands
    pieces,             \* _preprocess_utterance: what msplit returned
    start_timestamp,    \* _preprocess_utterance: start_timestamp
    end_timestamp,      \* _preprocess_utterance: end_timestamp
    preprocessed        \* what _preprocess_utterance returned or raised

vars == <<lambda_mm, lambda_lm, optimize_unused, captioning, normalize_features,
          outputs, ret, logged, calls, labels, ce_loss, masks, pc, error,
          n_loaders, val_outputs, trial, pred,
          batch_size, ex, imp_idx, triplets, tpc,
          pieces, start_timestamp, end_timestamp, preprocessed>>
cfgvars == <<lambda_mm, lambda_lm, optimize_unused, captioning, normalize_features>>
evalvars == <<n_loaders, val_outputs, trial, pred>>
tripletvars == <<batch_size, ex, imp_idx, triplets, tpc>>
uttvars == <<pieces, start_timestamp, end_timestamp, preprocessed>>
litvars == <<cfgvars, outputs, ret, logged, calls, labels, ce_loss, masks, pc, error, evalvars>>

\* ----------------------------------------------------------------- inputs
\* no trial scored yet, no prediction made
NoTrial == [logits_per_text |-> <<>>, y |-> -1]
NoPred == -1
Lambdas == {0, 1, 2}

\* what self.model.calculate_contrastive_loss returns (its scalars), with
\* the temperature exp(-logit_neg_log_temperature) of the model
ContrastiveA ==
    [infonce_loss |-> Num(3), image_accuracy |-> Num(1), text_accuracy |-> Frac(3, 4),
     image_entropy |-> Frac(1, 4), text_entropy |-> Frac(5, 4), temperature |-> Frac(7, 100)]
ContrastiveB ==
    [infonce_loss |-> Num(2), image_accuracy |-> Frac(1, 2), text_accuracy |-> Frac(1, 4),
     image_entropy |-> Frac(3, 2), text_entropy |-> Frac(1, 3), temperature |-> Frac(7, 100)]
ContrastiveC ==
    [infonce_loss |-> Num(5), image_accuracy |-> Num(0), text_accuracy |-> Num(1),
     image_entropy |-> Frac(2, 3), text_entropy |-> Frac(7, 4), temperature |-> Frac(1, 10)]

\* x.size(0) of a batch and the contrastive result on it
Images == { [batch_size |-> 4, contrastive |-> ContrastiveA],
            [batch_size |-> 8, contrastive |-> ContrastiveB],
            [batch_size |-> 4, contrastive |-> ContrastiveC] }

SeqsUpTo(S, n) == UNION { [1..k -> S] : k \in 1..n }

\* what self.language_model.calculate_ce_loss returns with tokenwise=True:
\* one loss value per label position, and the labels
CeResults == UNION { { [labels |-> l, ce_loss |-> c] : c \in [DOMAIN l -> 0..MaxCe] }
                     : l \in SeqsUpTo(Tokens, MaxLen) }

Batch(x, ce) == [batch_size |-> x.batch_size, contrastive |-> x.contrastive, ce |-> ce]
Batches == { Batch(x, ce) : x \in Images, ce \in CeResults }

\* ------------------------------------------------- token masking (4.1)
\* mask = (labels != PAD_TOKEN_ID)
mask_full(l) == [i \in DOMAIN l |-> l[i] # PAD_TOKEN_ID]
\* the SOS mask built without `mask &`
mask_wo_sos_fresh(l) == [i \in DOMAIN l |-> l[i] # SOS_TOKEN_ID]
\* mask = mask & (labels != SOS_TOKEN_ID)
mask_wo_sos(l) == [i \in DOMAIN l |-> mask_full(l)[i] /\ l[i] # SOS_TOKEN_ID]
\* mask = mask & (labels != EOS_TOKEN_ID)
mask_wo_sos_eos(l) == [i \in DOMAIN l |-> mask_wo_sos(l)[i] /\ l[i] # EOS_TOKEN_ID]

RECURSIVE SumTo(_, _)
SumTo(t, k) == IF k = 0 THEN 0 ELSE t[k] + SumTo(t, k - 1)
\* tensor.sum()
TensorSum(t) == SumTo(t, Len(t))
\* mask.sum(): the number of TRUE positions
MaskSum(m) == TensorSum([i \in DOMAIN m |-> IF m[i] THEN 1 ELSE 0])
\* ce_loss * mask
Masked(c, m) == [i \in DOMAIN c |-> IF m[i] THEN c[i] ELSE 0]

n_tokens(l) == MaskSum(mask_full(l))
n_tokens_wo_sos(l) == MaskSum(mask_wo_sos(l))
n_tokens_wo_sos_eos(l) == MaskSum(mask_wo_sos_eos(l))

\* lm_ce_loss = ce_loss.sum() / n_tokens
lm_ce_loss(l, c) == TorchDiv(Num(TensorSum(c)), Num(n_tokens(l)))
\* lm_ce_loss_wo_sos = (ce_loss * mask).sum() / n_tokens_wo_sos
lm_ce_loss_wo_sos(l, c) ==
    TorchDiv(Num(TensorSum(Masked(c, mask_wo_sos(l)))), Num(n_tokens_wo_sos(l)))
\* lm_ce_loss_wo_sos_eos = (ce_loss * mask).sum() / n_tokens_wo_sos_eos
lm_ce_loss_wo_sos_eos(l, c) ==
    TorchDiv(Num(TensorSum(Masked(c, mask_wo_sos_eos(l)))), Num(n_tokens_wo_sos_eos(l)))

\* ------------------------------------------- the joint loss combiner (4.4)
\* the contrastive branch gated on its weight alone
RunContrastive_weight_only == lambda_mm # 0
\* if self.lambda_mm or not self.optimize_unused
RunContrastive == lambda_mm # 0 \/ ~optimize_unused
\* the captioning branch run whatever the configuration
RunCaptioning_always == TRUE
\* the captioning branch gated on its weight alone
RunCaptioning_weight_only == lambda_lm # 0
\* if self.lambda_lm or not self.optimize_unused
RunCaptioning == lambda_lm # 0 \/ ~optimize_unused

LogEntry(name, v) == [name |-> name, value |-> v, exp |-> FALSE]
\* a logged np.exp(v)
LogExp(name, v) == [name |-> name, value |-> v, exp |-> TRUE]

\* the log calls of the contrastive branch
ContrastiveLog(stage, c) == <<
    LogEntry(stage \o "_infonce_loss", c.infonce_loss),
    LogEntry(stage \o "_image_accuracy", c.image_accuracy),
    LogEntry(stage \o "_text_accuracy", c.text_accuracy),
    LogEntry(stage \o "_image_entropy", c.image_entropy),
    LogEntry(stage \o "_text_entropy", c.text_entropy),
    LogEntry("temperature", c.temperature) >>

\* ret.update({...}) of the contrastive branch
ContrastiveRet(c) ==
    ("infonce_loss" :> Tensor(c.infonce_loss)) @@
    ("image_accuracy" :> Tensor(c.image_accuracy)) @@
    ("text_accuracy" :> Tensor(c.text_accuracy)) @@
    ("image_entropy" :> Tensor(c.image_entropy)) @@
    ("text_entropy" :> Tensor(c.text_entropy))

\* the log calls of the captioning branch
CaptioningLog(stage, l, c) == <<
    LogEntry(stage \o "_ce_loss", lm_ce_loss(l, c)),
    LogEntry(stage \o "_ce_loss_wo_sos", lm_ce_loss_wo_sos(l, c)),
    LogEntry(stage \o "_ce_loss_wo_sos_eos", lm_ce_loss_wo_sos_eos(l, c)) >>

\* ret.update({...}) of the captioning branch
CaptioningRet(l, c) ==
    ("ce_loss" :> Tensor(lm_ce_loss(l, c))) @@
    ("ce_loss_wo_sos" :> Tensor(lm_ce_loss_wo_sos(l, c))) @@
    ("ce_loss_wo_sos_eos" :> Tensor(lm_ce_loss_wo_sos_eos(l, c))) @@
    ("n_tokens" :> Tensor(Num(n_tokens(l)))) @@
    ("n_tokens_wo_sos" :> Tensor(Num(n_tokens_wo_sos(l)))) @@
    ("n_tokens_wo_sos_eos" :> Tensor(Num(n_tokens_wo_sos_eos(l))))

\* the image features computed ahead of the captioning branch's condition
CallsVisionEncoder_hoisted == captioning /\ ~RunContrastive
\* whether the combiner itself calls self.vision_encoder(x)
CallsVisionEncoder == RunCaptioning /\ captioning /\ ~RunContrastive
\* fresh image features left as the vision encoder returned them
CeImageFeatures_unnormalized ==
    IF RunContrastive THEN "contrastive"
    ELSE IF ~captioning THEN "None"
    ELSE "fresh"
\* the image_features argument of calculate_ce_loss
CeImageFeatures ==
    IF RunContrastive THEN "contrastive"
    ELSE IF ~captioning THEN "None"
    ELSE IF normalize_features THEN "fresh_normalized"
    ELSE "fresh"
\* text_outputs reset before the call whatever the flag
CeOutputs_reset == "None"
\* the outputs argument of calculate_ce_loss
CeOutputs == IF captioning \/ ~RunContrastive THEN "None" ELSE "text_outputs"

NoCalls == [calculate_contrastive_loss |-> 0, vision_encoder |-> 0,
            calculate_ce_loss |-> 0, ce_outputs |-> "-", ce_image_features |-> "-"]
\* the collaborators one calculate_joint_loss invokes, and what it passes
CollaboratorCalls ==
    [calculate_contrastive_loss |-> IF RunContrastive THEN 1 ELSE 0,
     vision_encoder |-> IF CallsVisionEncoder THEN 1 ELSE 0,
     calculate_ce_loss |-> IF RunCaptioning THEN 1 ELSE 0,
     ce_outputs |-> IF RunCaptioning THEN CeOutputs ELSE "-",
     ce_image_features |-> IF RunCaptioning THEN CeImageFeatures ELSE "-"]

\* infonce_loss after the first branch: the tensor, or the float 0.
InfonceLoss(c) == IF RunContrastive THEN Tensor(c.infonce_loss) ELSE PyNum(Zero)
\* the minus-SOS-and-EOS variant fed to the weighted sum
LmCeLoss_wo_sos_eos(l, c) ==
    IF RunCaptioning THEN Tensor(lm_ce_loss_wo_sos_eos(l, c)) ELSE PyNum(Zero)
\* lm_ce_loss after the second branch: the tensor, or the float 0.
LmCeLoss(l, c) == IF RunCaptioning THEN Tensor(lm_ce_loss(l, c)) ELSE PyNum(Zero)
\* loss = self.lambda_mm * infonce_loss + self.lambda_lm * lm_ce_loss
JointLoss(infonce, lm) ==
    PyAdd(PyMul(PyNum(Num(lambda_mm)), infonce), PyMul(PyNum(Num(lambda_lm)), lm))

\* what calculate_joint_loss(batch, stage, log) returns and logs
JointRet(b) ==
    ("batch_size" :> PyNum(Num(b.batch_size))) @@
    (IF RunContrastive THEN ContrastiveRet(b.contrastive) ELSE <<>>) @@
    (IF RunCaptioning THEN CaptioningRet(b.ce.labels, b.ce.ce_loss) ELSE <<>>) @@
    ("loss" :> JointLoss(InfonceLoss(b.contrastive), LmCeLoss(b.ce.labels, b.ce.ce_loss)))
JointLog(b, stage) ==
    (IF RunContrastive THEN ContrastiveLog(stage, b.contrastive) ELSE <<>>) \o
    (IF RunCaptioning THEN CaptioningLog(stage, b.ce.labels, b.ce.ce_loss) ELSE <<>>) \o
    << LogEntry(stage \o "_loss",
                JointLoss(InfonceLoss(b.contrastive), LmCeLoss(b.ce.labels, b.ce.ce_loss)).v) >>

\* log is self.log, or the empty_log of the evaluation step, which records
\* nothing
calculate_joint_loss(b, stage, log) ==
    /\ ret' = JointRet(b)
    /\ logged' = IF log = "empty_log" THEN <<>> ELSE JointLog(b, stage)
    /\ calls' = CollaboratorCalls
    /\ labels' = IF RunCaptioning THEN b.ce.labels ELSE <<>>
    /\ ce_loss' = IF RunCaptioning THEN b.ce.ce_loss ELSE <<>>
    /\ masks' = IF RunCaptioning
                THEN << mask_full(b.ce.labels), mask_wo_sos(b.ce.labels),
                        mask_wo_sos_eos(b.ce.labels) >>
                ELSE <<>>

\* training_step: the record joins the outputs Lightning hands to
\* training_epoch_end
training_step(b) ==
    /\ pc = "training"
    /\ calculate_joint_loss(b, "train", "self.log")
    /\ outputs' = Append(outputs, ret')
    /\ UNCHANGED <<cfgvars, pc, error, evalvars, tripletvars, uttvars>>

\* ------------------------------------------- the epoch aggregator (4.5)
\* one pass of the loop of mean_over_examples / mean_over_tokens over outs,
\* from record i on: output[weight] is batch_size (a Python int, read as it
\* is) or a token count (a tensor, read with .item()); output[name].item()
\* needs a tensor
\* a Python list among the outputs (a dataloader's list of records), as
\* opposed to a record, which is a dict
AsList(seq) == [list |-> seq]
IsList(o) == DOMAIN o = {"list"}
RECURSIVE WeightedLoop(_, _, _, _, _, _)
WeightedLoop(outs, name, weight, i, weight_sum, value_sum) ==
    IF i > Len(outs)
    THEN \* value_sum / weight_sum on Python numbers
         IF weight_sum = Zero THEN Raise("ZeroDivisionError")
         ELSE Ok(TorchDiv(value_sum, weight_sum))
    ELSE IF IsList(outs[i])
    THEN \* output['batch_size'] on a list
         Raise("TypeError")
    ELSE IF weight \notin DOMAIN outs[i] \/ name \notin DOMAIN outs[i]
    THEN Raise("KeyError")
    ELSE IF weight # "batch_size" /\ ~outs[i][weight].tensor
    THEN Raise("AttributeError")
    ELSE IF ~outs[i][name].tensor
    THEN Raise("AttributeError")
    ELSE WeightedLoop(outs, name, weight, i + 1,
                      Add(weight_sum, outs[i][weight].v),
                      Add(value_sum, Mul(outs[i][name].v, outs[i][weight].v)))

\* the plain mean of the per-batch values
RECURSIVE UnweightedLoop(_, _, _, _, _)
UnweightedLoop(outs, name, i, n, value_sum) ==
    IF i > Len(outs)
    THEN IF n = Zero THEN Raise("ZeroDivisionError") ELSE Ok(TorchDiv(value_sum, n))
    ELSE IF name \notin DOMAIN outs[i] THEN Raise("KeyError")
    ELSE IF ~outs[i][name].tensor THEN Raise("AttributeError")
    ELSE UnweightedLoop(outs, name, i + 1, Add(n, Num(1)), Add(value_sum, outs[i][name].v))
mean_over_examples_unweighted(outs, name) == UnweightedLoop(outs, name, 1, Zero, Zero)

\* an empty epoch answered with a mean of 0
mean_over_examples_guarded(outs, name) ==
    IF outs = <<>> THEN Ok(Zero) ELSE WeightedLoop(outs, name, "batch_size", 1, Zero, Zero)
\* the return inside the loop: the mean of the first record alone
mean_over_tokens_first(outs, name, n_tokens_name) ==
    WeightedLoop(IF outs = <<>> THEN outs ELSE << outs[1] >>, name, n_tokens_name, 1, Zero, Zero)

mean_over_examples(outs, name) == WeightedLoop(outs, name, "batch_size", 1, Zero, Zero)
mean_over_tokens(outs, name, n_tokens_name) ==
    WeightedLoop(outs, name, n_tokens_name, 1, Zero, Zero)

\* the means joint_loss_epoch_end computes, in the order of its three blocks
ContrastiveNames ==
    <<"infonce_loss", "image_accuracy", "text_accuracy", "image_entropy", "text_entropy">>
Suffixes == <<"", "_wo_sos", "_wo_sos_eos">>
ExamplesItem(name) == [kind |-> "examples", name |-> name, weight |-> "batch_size"]
\* every variant weighted by the full token count
TokensItem_full_count(suffix) ==
    [kind |-> "tokens", name |-> "ce_loss" \o suffix, weight |-> "n_tokens"]
TokensItem(suffix) ==
    [kind |-> "tokens", name |-> "ce_loss" \o suffix, weight |-> "n_tokens" \o suffix]
\* the conditions of the aggregator's two blocks, written out again in
\* joint_loss_epoch_end
AggregateContrastive == lambda_mm # 0 \/ ~optimize_unused
\* the captioning block entered in every configuration
AggregateCaptioning_always == TRUE
AggregateCaptioning == lambda_lm # 0 \/ ~optimize_unused
EpochPlan ==
    (IF AggregateContrastive
     THEN [k \in 1..Len(ContrastiveNames) |-> ExamplesItem(ContrastiveNames[k])]
     ELSE <<>>) \o
    (IF AggregateCaptioning
     THEN [k \in 1..Len(Suffixes) |-> TokensItem(Suffixes[k])]
     ELSE <<>>) \o
    << ExamplesItem("loss") >>

\* what one item logs once its mean is known: the mean, and for a
\* cross-entropy variant also the perplexity np.exp(value_mean)
ItemLog(item, stage, value_mean) ==
    IF item.kind = "examples"
    THEN << LogEntry(stage \o "_" \o item.name, value_mean) >>
    ELSE << LogEntry(stage \o "_" \o item.name, value_mean),
            LogExp(stage \o "_perplexity" \o
                   SubSeq(item.name, Len("ce_loss") + 1, Len(item.name)), value_mean) >>

\* runs the plan from item k on; an exception ends it with what was logged
RECURSIVE RunPlan(_, _, _, _, _)
RunPlan(outs, stage, plan, k, log) ==
    IF k > Len(plan) THEN [log |-> log, error |-> "none"]
    ELSE LET r == IF plan[k].kind = "examples"
                  THEN mean_over_examples(outs, plan[k].name)
                  ELSE mean_over_tokens(outs, plan[k].name, plan[k].weight)
         IN IF r.err # "none" THEN [log |-> log, error |-> r.err]
            ELSE RunPlan(outs, stage, plan, k + 1, log \o ItemLog(plan[k], stage, r.v))

joint_loss_epoch_end(outs, stage) == RunPlan(outs, stage, EpochPlan, 1, <<>>)

\* training_epoch_end: log(name, value) is self.log(f'{name}_epoch', value)
EpochName(e) == [e EXCEPT !.name = @ \o "_epoch"]
training_epoch_end ==
    /\ pc = "training"
    /\ \E r \in {joint_loss_epoch_end(outputs, "train")} :
          /\ logged' = [k \in 1..Len(r.log) |-> EpochName(r.log[k])]
          /\ error' = r.error
    /\ pc' = "epoch_end"
    /\ UNCHANGED <<cfgvars, outputs, ret, calls, labels, ce_loss, masks, evalvars, tripletvars, uttvars>>

\* ------------------------------------- the evaluation-trial scorer (4.6)
\* the logits self.model(x, y, y_len) can give for the one utterance of a
\* trial: one row, one entry per candidate image
LogitValues == {0, 1, 5}
TrialLogits == { << row >> : row \in SeqsUpTo(LogitValues, MaxCandidates) }
\* self.text_encoder.idx2word, and the query token ids y.item() can be
idx2word == (4 :> "ball") @@ (5 :> "car")
QueryTokens == {4, 5, 6}
Trials == { [logits_per_text |-> l, y |-> t] : l \in TrialLogits, t \in QueryTokens }

\* the condition under which a trial is scored
ScoresTrial_always == TRUE
ScoresTrial == lambda_mm # 0 \/ ~optimize_unused
\* torch.argmax(logits).item(): the 0-based index of a maximal entry
ArgMax(logits) ==
    { j - 1 : j \in { i \in DOMAIN logits : \A k \in DOMAIN logits : logits[i] >= logits[k] } }
\* label = 0: the correct answer is always the first item
label == 0
\* int(pred != label)
Accuracy_inverted(p) == IF p # label THEN 1 ELSE 0
\* accuracy = int(pred == label)
Accuracy(p) == IF p = label THEN 1 ELSE 0
\* a logged get_entropy(logits)
LogEntropy(name, logits) == [name |-> name, value |-> logits, entropy |-> TRUE]
\* the two log calls every scored trial makes
TrialLog(stage, t, p) ==
    << LogEntry(stage \o "_accuracy", Num(Accuracy(p))),
       LogEntropy(stage \o "_entropy", t.logits_per_text[1]) >>
\* a lookup that answers "<unk>" for an id it does not hold
CategoryLabel_default(t) == Ok(IF t.y \in DOMAIN idx2word THEN idx2word[t.y] ELSE "<unk>")
\* category_label = self.text_encoder.idx2word[y.item()]
CategoryLabel(t) == IF t.y \in DOMAIN idx2word THEN Ok(idx2word[t.y]) ELSE Raise("KeyError")
\* the per-category log call
CategoryLog(stage, category_label, p) ==
    << LogEntry(stage \o "_accuracy_" \o category_label, Num(Accuracy(p))) >>
TrialRet(p) == "accuracy" :> PyNum(Num(Accuracy(p)))

\* the branch dataloader_idx == 1 of validation_test_step on trial t
ScoreTrial(stage, t) ==
    /\ trial' = t
    /\ calls' = NoCalls /\ labels' = <<>> /\ ce_loss' = <<>> /\ masks' = <<>>
    /\ IF ScoresTrial
       THEN \E p \in ArgMax(t.logits_per_text[1]) :
              /\ pred' = p
              /\ \E c \in {CategoryLabel(t)} :
                   IF c.err = "none"
                   THEN /\ logged' = TrialLog(stage, t, p) \o CategoryLog(stage, c.v, p)
                        /\ ret' = TrialRet(p)
                        /\ error' = "none"
                   ELSE \* the lookup raises after the first two log calls
                        /\ logged' = TrialLog(stage, t, p)
                        /\ ret' = <<>>
                        /\ error' = c.err
       ELSE /\ pred' = NoPred
            /\ logged' = <<>>
            /\ ret' = <<>>
            /\ error' = "none"

\* validation_test_step: dataloader 0 holds batches of image-text pairs,
\* dataloader 1 evaluation trials; for any other index ret stays {}
validation_test_step(stage, batch, dataloader_idx) ==
    IF dataloader_idx = 0
    THEN /\ calculate_joint_loss(batch, stage, "empty_log")
         /\ trial' = NoTrial /\ pred' = NoPred /\ error' = "none"
    ELSE IF dataloader_idx = 1
    THEN ScoreTrial(stage, batch)
    ELSE /\ ret' = <<>> /\ logged' = <<>> /\ error' = "none"
         /\ calls' = NoCalls /\ labels' = <<>> /\ ce_loss' = <<>> /\ masks' = <<>>
         /\ trial' = NoTrial /\ pred' = NoPred

\* one step of the evaluation loop: what the step returns joins the list
\* of its dataloader; an exception ends the run
EvaluationStep(stage, batch, dataloader_idx) ==
    /\ validation_test_step(stage, batch, dataloader_idx)
    /\ val_outputs' = IF error' = "none"
                      THEN [val_outputs EXCEPT ![dataloader_idx + 1] = Append(@, ret')]
                      ELSE val_outputs
    /\ pc' = IF error' = "none" THEN pc ELSE "aborted"
    /\ UNCHANGED <<cfgvars, outputs, n_loaders, tripletvars, uttvars>>
validation_step(batch, dataloader_idx) ==
    pc = "validation" /\ EvaluationStep("val", batch, dataloader_idx)
test_step(batch, dataloader_idx) ==
    pc = "test" /\ EvaluationStep("test", batch, dataloader_idx)

\* the outputs Lightning hands to the epoch-end hook: the list of the step
\* results with one dataloader, a list of such lists with several
EpochEndOutputs ==
    IF n_loaders = 1 THEN val_outputs[1]
    ELSE [j \in 1..n_loaders |-> AsList(val_outputs[j])]
\* if len(outputs) == 2 and isinstance(outputs[0], list): outputs = outputs[0]
FirstDataset(outs) == IF Len(outs) = 2 /\ IsList(outs[1]) THEN outs[1].list ELSE outs
\* validation_test_epoch_end; outputs becomes what joint_loss_epoch_end is
\* given
validation_test_epoch_end(stage, outs) ==
    /\ outputs' = FirstDataset(outs)
    /\ \E r \in {joint_loss_epoch_end(outputs', stage)} :
          /\ logged' = r.log
          /\ error' = r.error
    /\ pc' = "epoch_end"
    /\ UNCHANGED <<cfgvars, ret, calls, labels, ce_loss, masks, evalvars, tripletvars, uttvars>>
validation_epoch_end ==
    pc = "validation" /\ validation_test_epoch_end("val", EpochEndOutputs)
test_epoch_end ==
    pc = "test" /\ validation_test_epoch_end("test", EpochEndOutputs)

\* --------------------------- compute_triplet_loss of src/train.py
\* compute_triplet_loss not called
TripletIdle ==
    batch_size = 0 /\ ex = 0 /\ imp_idx = 0 /\ triplets = <<>> /\ tpc = "idle"

\* for i in range(batch_size): the next example, with imp_idx = i
ForNext ==
    /\ tpc = "for" /\ ex < batch_size
    /\ imp_idx' = ex
    /\ tpc' = "while"
    /\ UNCHANGED <<batch_size, ex, triplets, litvars, uttvars>>
\* while imp_idx == i: the test holds and the body is entered
WhileTest ==
    /\ tpc = "while" /\ imp_idx = ex
    /\ tpc' = "randint"
    /\ UNCHANGED <<batch_size, ex, imp_idx, triplets, litvars, uttvars>>
\* imp_idx = np.random.randint(0, batch_size) gives j; back to the test
Sample(j) ==
    /\ tpc = "randint"
    /\ j \in 0..(batch_size - 1)
    /\ imp_idx' = j
    /\ tpc' = "while"
    /\ UNCHANGED <<batch_size, ex, triplets, litvars, uttvars>>
WhileBody == \E j \in 0..(MaxBatch - 1) : Sample(j)
\* the loop left: imp_idx is both image_imp_idx and utterance_imp_idx of
\* the two mismatching matchmaps added to the loss
UseImpostor ==
    /\ tpc = "while" /\ imp_idx # ex
    /\ triplets' = Append(triplets, [image_imp_idx |-> imp_idx, utterance_imp_idx |-> imp_idx])
    /\ ex' = ex + 1
    /\ tpc' = "for"
    /\ UNCHANGED <<batch_size, imp_idx, litvars, uttvars>>
\* loss = loss / batch_size; return loss
ReturnLoss ==
    /\ tpc = "for" /\ ex = batch_size
    /\ tpc' = "done"
    /\ UNCHANGED <<batch_size, ex, imp_idx, triplets, litvars, uttvars>>

\* ------------------------------------------- _preprocess_utterance
MAX_FRAMES_PER_UTTERANCE == 20
NotCalled == [err |-> "not called", utterances |-> <<>>, all_timestamps |-> <<>>,
              num_frames |-> <<>>]
UtteranceIdle ==
    pieces = <<>> /\ start_timestamp = 0 /\ end_timestamp = 0 /\ preprocessed = NotCalled

\* str.strip() of a piece of letters and blanks
RECURSIVE strip(_)
strip(u) ==
    IF u = "" THEN u
    ELSE IF SubSeq(u, 1, 1) = " " THEN strip(SubSeq(u, 2, Len(u)))
    ELSE IF SubSeq(u, Len(u), Len(u)) = " " THEN strip(SubSeq(u, 1, Len(u) - 1))
    ELSE u
\* [utterance.strip() for utterance in utterances if len(utterance) > 0]
NonEmpty(u) == Len(u) > 0
Utterances(ps) ==
    [j \in 1..Len(SelectSeq(ps, NonEmpty)) |-> strip(SelectSeq(ps, NonEmpty)[j])]
\* int(x) of the float x = n / d, d > 0: the fraction is dropped
IntOf(n, d) == IF n >= 0 THEN n \div d ELSE -((-n) \div d)
\* [int(t) for t in np.linspace(start, stop, num, endpoint=True)]
IntLinspace(start, stop, num) ==
    [j \in 1..num |-> IntOf(start * (num - 1) + (j - 1) * (stop - start), num - 1)]
MinOf(a, b) == IF a < b THEN a ELSE b
MaxOf(a, b) == IF a > b THEN a ELSE b
\* the frames taken without the cap
curr_num_frames_uncapped(t, j) == MaxOf(t[j + 1] - t[j], 1)
\* max(min(timestamps[i+1] - timestamps[i], MAX_FRAMES_PER_UTTERANCE), 1)
curr_num_frames(t, j) == MaxOf(MinOf(t[j + 1] - t[j], MAX_FRAMES_PER_UTTERANCE), 1)
\* list(range(timestamps[i], timestamps[i] + curr_num_frames))
curr_timestamps(t, j) == [m \in 1..curr_num_frames(t, j) |-> t[j] + m - 1]
\* the function from the split on
PreprocessUtterance(ps, start, stop) ==
    IF ~(start <= stop) THEN [NotCalled EXCEPT !.err = "AssertionError"]
    ELSE LET utterances == Utterances(ps)
             timestamps == IntLinspace(start, stop, Len(utterances) + 1)
         IN  IF Len(utterances) > 0
             THEN [err |-> "none", utterances |-> utterances,
                   all_timestamps |-> [j \in 1..Len(utterances) |-> curr_timestamps(timestamps, j)],
                   num_frames |-> [j \in 1..Len(utterances) |-> curr_num_frames(timestamps, j)]]
             ELSE [err |-> "none", utterances |-> utterances,
                   all_timestamps |-> <<>>, num_frames |-> <<>>]
preprocess_utterance ==
    /\ preprocessed = NotCalled
    /\ preprocessed' = PreprocessUtterance(pieces, start_timestamp, end_timestamp)
    /\ UNCHANGED <<pieces, start_timestamp, end_timestamp, litvars, tripletvars>>

\* ------------------------------------------------------- specifications
\* __init__: the weights and flags of one run; nothing computed yet
Init ==
    /\ lambda_mm \in Lambdas
    /\ lambda_lm \in Lambdas
    /\ optimize_unused \in BOOLEAN
    /\ captioning \in BOOLEAN
    /\ normalize_features \in BOOLEAN
    /\ outputs = <<>>
    /\ ret = <<>>
    /\ logged = <<>>
    /\ calls = NoCalls
    /\ labels = <<>>
    /\ ce_loss = <<>>
    /\ masks = <<>>
    /\ pc = "training"
    /\ error = "none"
    /\ n_loaders = 1
    /\ val_outputs = << <<>> >>
    /\ trial = NoTrial
    /\ pred = NoPred
    /\ TripletIdle
    /\ UtteranceIdle

\* the batches of the epochs of Spec: one token of loss 2 and a PAD, three
\* tokens of loss 1 of which one SOS and one EOS, and an EOS alone
CeA == [labels |-> <<4, PAD_TOKEN_ID>>, ce_loss |-> <<2, 0>>]
CeB == [labels |-> <<SOS_TOKEN_ID, 4, EOS_TOKEN_ID>>, ce_loss |-> <<1, 1, 1>>]
CeC == [labels |-> <<EOS_TOKEN_ID, PAD_TOKEN_ID>>, ce_loss |-> <<3, 1>>]
EpochBatches ==
    { Batch(x, CeA) : x \in Images } \cup
    { Batch(x, CeB) : x \in { y \in Images : y.batch_size = 8 } } \cup
    { Batch(x, CeC) : x \in { y \in Images : y.batch_size = 4 } }

\* one training epoch: up to MaxRecords steps, then the epoch end
StepOfEpoch == Len(outputs) < MaxRecords /\ \E b \in EpochBatches : training_step(b)
Next == StepOfEpoch \/ training_epoch_end
Spec == Init /\ [][Next]_vars

\* epochs of up to MaxPermuted records over three batches that differ in
\* batch size, token counts and losses
PermBatches ==
    { Batch(x, CeA) : x \in { y \in Images : y.batch_size = 4 } } \cup
    { Batch(x, CeB) : x \in { y \in Images : y.batch_size = 8 } }
StepOfPermEpoch == Len(outputs) < MaxPermuted /\ \E b \in PermBatches : training_step(b)
NextPerm == StepOfPermEpoch \/ training_epoch_end
SpecPerm == Init /\ [][NextPerm]_vars

\* an evaluation run: validation or test, over 1..MaxLoaders dataloaders
InitEvaluation ==
    /\ lambda_mm \in Lambdas
    /\ lambda_lm \in Lambdas
    /\ optimize_unused \in BOOLEAN
    /\ captioning \in BOOLEAN
    /\ normalize_features \in BOOLEAN
    /\ outputs = <<>>
    /\ ret = <<>>
    /\ logged = <<>>
    /\ calls = NoCalls
    /\ labels = <<>>
    /\ ce_loss = <<>>
    /\ masks = <<>>
    /\ pc \in {"validation", "test"}
    /\ error = "none"
    /\ n_loaders \in 1..MaxLoaders
    /\ val_outputs = [j \in 1..n_loaders |-> <<>>]
    /\ trial = NoTrial
    /\ pred = NoPred
    /\ TripletIdle
    /\ UtteranceIdle

\* the batches of dataloader 0 and the trials of dataloader 1 of SpecEval
EvalBatches == { Batch(x, CeB) : x \in { y \in Images : y.batch_size = 8 } } \cup
               { Batch(x, CeA) : x \in { y \in Images : y.contrastive = ContrastiveA } }
EvalTrials == { [logits_per_text |-> << <<5, 1>> >>, y |-> 4] }
\* the batches a dataloader can give: anything for an index above 1
LoaderBatches(dataloader_idx) ==
    IF dataloader_idx = 0 THEN EvalBatches
    ELSE IF dataloader_idx = 1 THEN EvalTrials
    ELSE {"batch"}
\* the dataloaders are run one after the other, each for up to
\* MaxValBatches batches
MayStep(dataloader_idx) ==
    /\ Len(val_outputs[dataloader_idx + 1]) < MaxValBatches
    /\ \A j \in 1..n_loaders : j > dataloader_idx + 1 => val_outputs[j] = <<>>
StepOfValidation ==
    \E dataloader_idx \in 0..(n_loaders - 1) :
        /\ MayStep(dataloader_idx)
        /\ \E b \in LoaderBatches(dataloader_idx) : validation_step(b, dataloader_idx)
StepOfTest ==
    \E dataloader_idx \in 0..(n_loaders - 1) :
        /\ MayStep(dataloader_idx)
        /\ \E b \in LoaderBatches(dataloader_idx) : test_step(b, dataloader_idx)
NextEval == StepOfValidation \/ StepOfTest \/ validation_epoch_end \/ test_epoch_end
SpecEval == InitEvaluation /\ [][NextEval]_vars

\* validation_test_step as a function of the configuration and one trial
\* of dataloader 1
FirstTrialOfValidation ==
    /\ n_loaders >= 2 /\ val_outputs[2] = <<>>
    /\ \E t \in Trials : validation_step(t, 1)
FirstTrialOfTest ==
    /\ n_loaders >= 2 /\ val_outputs[2] = <<>>
    /\ \E t \in Trials : test_step(t, 1)
NextTrial == FirstTrialOfValidation \/ FirstTrialOfTest
SpecTrial == InitEvaluation /\ [][NextTrial]_vars

\* compute_triplet_loss on a batch of 1..MaxBatch examples
InitTriplet ==
    /\ lambda_mm = 0 /\ lambda_lm = 0 /\ optimize_unused = FALSE
    /\ captioning = FALSE /\ normalize_features = FALSE
    /\ outputs = <<>> /\ ret = <<>> /\ logged = <<>> /\ calls = NoCalls
    /\ labels = <<>> /\ ce_loss = <<>> /\ masks = <<>>
    /\ pc = "idle" /\ error = "none"
    /\ n_loaders = 1 /\ val_outputs = << <<>> >> /\ trial = NoTrial /\ pred = NoPred
    /\ batch_size \in 1..MaxBatch
    /\ ex = 0 /\ imp_idx = 0 /\ triplets = <<>>
    /\ tpc = "for"
    /\ UtteranceIdle
NextTriplet == ForNext \/ WhileTest \/ WhileBody \/ UseImpostor \/ ReturnLoss
\* every step that can be taken is taken in the end, and a value that
\* randint can give again and again is given in the end
SpecTriplet ==
    /\ InitTriplet /\ [][NextTriplet]_vars
    /\ WF_vars(NextTriplet)
    /\ \A j \in 0..(MaxBatch - 1) : SF_vars(Sample(j))

\* _preprocess_utterance on up to MaxPieces pieces and integer timestamps
\* (one pair of them with the start after the end)
PieceStrings == {"", " ", "a", " a"}
StartTimes == -2..2
InitUtterance ==
    /\ lambda_mm = 0 /\ lambda_lm = 0 /\ optimize_unused = FALSE
    /\ captioning = FALSE /\ normalize_features = FALSE
    /\ outputs = <<>> /\ ret = <<>> /\ logged = <<>> /\ calls = NoCalls
    /\ labels = <<>> /\ ce_loss = <<>> /\ masks = <<>>
    /\ pc = "idle" /\ error = "none"
    /\ n_loaders = 1 /\ val_outputs = << <<>> >> /\ trial = NoTrial /\ pred = NoPred
    /\ TripletIdle
    /\ pieces \in {<<>>} \cup SeqsUpTo(PieceStrings, MaxPieces)
    /\ start_timestamp \in StartTimes
    /\ \E duration \in -1..MaxDuration : end_timestamp = start_timestamp + duration
    /\ preprocessed = NotCalled
SpecUtterance == InitUtterance /\ [][preprocess_utterance]_vars

\* calculate_joint_loss as a function of the configuration and one batch
FirstStep == Len(outputs) = 0 /\ \E b \in Batches : training_step(b)
SpecStep == Init /\ [][FirstStep]_vars

\* ======================================================================
\* Properties.  StepDone: calculate_joint_loss has returned a record.
StepDone == Len(outputs) >= 1
Degenerate == lambda_mm = 0 /\ lambda_lm = 0 /\ optimize_unused
LoggedNames == [k \in 1..Len(logged) |-> logged[k].name]
LoggedValues(name) == { logged[k].value : k \in { j \in 1..Len(logged) : logged[j].name = name } }

\* the positions each masking policy of 4.1 keeps
KeptFull(l) == { i \in DOMAIN l : l[i] # PAD_TOKEN_ID }
KeptWoSos(l) == { i \in DOMAIN l : l[i] \notin {PAD_TOKEN_ID, SOS_TOKEN_ID} }
KeptWoSosEos(l) == { i \in DOMAIN l : l[i] \notin {PAD_TOKEN_ID, SOS_TOKEN_ID, EOS_TOKEN_ID} }
RECURSIVE SumOver(_, _)
SumOver(f, S) ==
    IF S = {} THEN 0 ELSE LET i == CHOOSE j \in S : TRUE IN f[i] + SumOver(f, S \ {i})
\* sum over the kept positions of the token-wise loss, over their number
MaskedMean(c, K) == Norm(SumOver(c, K), Cardinality(K))

\* C1: each of the three reported captioning losses is the sum over the
\* positions its mask keeps of the token-wise cross-entropy, divided by the
\* number of those positions; the full variant sums only the positions whose
\* label is not PAD.
\* (stated for the batches in which every mask keeps a position)
C1_MaskedLosses ==
    (StepDone /\ RunCaptioning /\ KeptWoSosEos(labels) # {}) =>
        /\ ret["ce_loss"].v = MaskedMean(ce_loss, KeptFull(labels))
        /\ ret["ce_loss_wo_sos"].v = MaskedMean(ce_loss, KeptWoSos(labels))
        /\ ret["ce_loss_wo_sos_eos"].v = MaskedMean(ce_loss, KeptWoSosEos(labels))

\* C2: the three masks are nested, minus-SOS-and-EOS within minus-SOS within
\* full (label # PAD), and so are the three token counts of the record.
TrueAt(m) == { i \in DOMAIN m : m[i] }
C2_MasksNested ==
    (StepDone /\ RunCaptioning) =>
        /\ Len(masks) = 3
        /\ TrueAt(masks[3]) \subseteq TrueAt(masks[2])
        /\ TrueAt(masks[2]) \subseteq TrueAt(masks[1])
        /\ TrueAt(masks[1]) = KeptFull(labels)
        /\ ret["n_tokens"].v = Num(Cardinality(TrueAt(masks[1])))
        /\ ret["n_tokens_wo_sos"].v = Num(Cardinality(TrueAt(masks[2])))
        /\ ret["n_tokens_wo_sos_eos"].v = Num(Cardinality(TrueAt(masks[3])))
        /\ ret["n_tokens_wo_sos_eos"].v[1] <= ret["n_tokens_wo_sos"].v[1]
        /\ ret["n_tokens_wo_sos"].v[1] <= ret["n_tokens"].v[1]
\* a batch whose three masks all differ: a SOS label and an EOS label
C2_Witness ==
    /\ StepDone /\ RunCaptioning
    /\ TrueAt(masks[3]) # TrueAt(masks[2])
    /\ TrueAt(masks[2]) # TrueAt(masks[1])

\* the value of a field of the record, or 0 for a field a skipped branch left out
FieldOr0(r, f) == IF f \in DOMAIN r THEN r[f].v ELSE Zero
\* lambda_mm x contrastive_loss + lambda_lm x (the loss reported as ce_loss)
WeightedSum(r) ==
    Add(Mul(Num(lambda_mm), FieldOr0(r, "infonce_loss")),
        Mul(Num(lambda_lm), FieldOr0(r, "ce_loss")))

\* C3: the value returned and logged under `loss` is lambda_mm x
\* contrastive_loss + lambda_lm x captioning_loss, the captioning loss being
\* the full-mask variant reported as ce_loss; a skipped branch contributes 0.
C3_JointLoss ==
    StepDone =>
        /\ ret["loss"].v = WeightedSum(ret)
        /\ LoggedValues("train_loss") = { WeightedSum(ret) }
        /\ logged[Len(logged)].name = "train_loss"
\* both branches ran with non-zero weights on a batch whose full-mask loss
\* differs from the other two variants
C3_Witness ==
    /\ StepDone /\ lambda_mm = 2 /\ lambda_lm = 1
    /\ ret["ce_loss"].v \notin {ret["ce_loss_wo_sos"].v, ret["ce_loss_wo_sos_eos"].v, NaN, Inf}
    /\ ret["ce_loss_wo_sos"].v \notin {NaN, Inf}
    /\ ret["ce_loss_wo_sos_eos"].v \notin {NaN, Inf}
    /\ ret["loss"].v = Add(Mul(Num(2), ret["infonce_loss"].v), ret["ce_loss"].v)

ContrastiveFields ==
    {"infonce_loss", "image_accuracy", "text_accuracy", "image_entropy", "text_entropy"}
ContrastiveLogNames ==
    {"train_infonce_loss", "train_image_accuracy", "train_text_accuracy",
     "train_image_entropy", "train_text_entropy", "temperature"}
\* the record and the log hold the quantities of contrastive result c
HoldsContrastive(c) ==
    /\ \A f \in ContrastiveFields : f \in DOMAIN ret /\ ret[f].v = c[f]
    /\ SubSeq(logged, 1, 6) = <<
          LogEntry("train_infonce_loss", c.infonce_loss),
          LogEntry("train_image_accuracy", c.image_accuracy),
          LogEntry("train_text_accuracy", c.text_accuracy),
          LogEntry("train_image_entropy", c.image_entropy),
          LogEntry("train_text_entropy", c.text_entropy),
          LogEntry("temperature", c.temperature) >>

\* C4: the contrastive branch runs iff lambda_mm is nonzero or
\* optimize_unused is false; when it runs its five quantities and the
\* temperature are logged and the five are stored in the record; when it is
\* skipped it contributes 0 to the loss and nothing of it is logged or stored.
C4_ContrastiveBranch ==
    StepDone =>
        /\ calls.calculate_contrastive_loss = 1 <=> (lambda_mm # 0 \/ ~optimize_unused)
        /\ calls.calculate_contrastive_loss \in {0, 1}
        /\ calls.calculate_contrastive_loss = 1 =>
              \E x \in Images : HoldsContrastive(x.contrastive)
        /\ calls.calculate_contrastive_loss = 0 =>
              /\ DOMAIN ret \cap ContrastiveFields = {}
              /\ \A k \in 1..Len(logged) : logged[k].name \notin ContrastiveLogNames
              /\ ret["loss"].v = Mul(Num(lambda_lm), FieldOr0(ret, "ce_loss"))
\* the branch ran although its weight is zero, because the flag is off
C4_Witness ==
    /\ StepDone /\ lambda_mm = 0 /\ ~optimize_unused
    /\ calls.calculate_contrastive_loss = 1
    /\ HoldsContrastive(ContrastiveB)
\* C5: with lambda_lm = 0 and optimize_unused, the captioning sub-model's
\* calculate_ce_loss is never invoked and the joint loss is lambda_mm x
\* contrastive_loss: the contrastive loss itself when lambda_mm = 1.
C5_CaptioningSkipped ==
    (StepDone /\ lambda_lm = 0 /\ optimize_unused) =>
        /\ calls.calculate_ce_loss = 0
        /\ calls.ce_outputs = "-" /\ calls.ce_image_features = "-"
        /\ ret["loss"].v = Mul(Num(lambda_mm), FieldOr0(ret, "infonce_loss"))
        /\ lambda_mm = 1 => ret["loss"] = ret["infonce_loss"]
C5_Witness ==
    /\ StepDone /\ lambda_mm = 1 /\ lambda_lm = 0 /\ optimize_unused
    /\ calls.calculate_ce_loss = 0 /\ calls.calculate_contrastive_loss = 1
    /\ ret["loss"].v = Num(5)

\* C6: with both weights zero and optimize_unused, neither branch nor the
\* vision encoder is invoked and the joint loss returned is exactly 0.
C6_NothingRuns ==
    (StepDone /\ Degenerate) =>
        /\ calls = NoCalls
        /\ ret["loss"].v = Zero
        /\ LoggedNames = <<"train_loss">> /\ logged[1].value = Zero
C6_Witness ==
    StepDone /\ Degenerate /\ captioning /\ calls.vision_encoder = 0 /\ ret["loss"].v = Zero

AllLogNames ==
    <<"train_infonce_loss", "train_image_accuracy", "train_text_accuracy",
      "train_image_entropy", "train_text_entropy", "temperature",
      "train_ce_loss", "train_ce_loss_wo_sos", "train_ce_loss_wo_sos_eos", "train_loss">>
AllFields ==
    ContrastiveFields \cup
    {"batch_size", "ce_loss", "ce_loss_wo_sos", "ce_loss_wo_sos_eos",
     "n_tokens", "n_tokens_wo_sos", "n_tokens_wo_sos_eos", "loss"}

\* C8: with optimize_unused false both branches run whatever the weights,
\* the same metric names are logged (five contrastive quantities,
\* temperature, three cross-entropy variants, loss) and the record has the
\* same fields.
C8_FlagOffLogsAll ==
    (StepDone /\ ~optimize_unused) =>
        /\ calls.calculate_contrastive_loss = 1 /\ calls.calculate_ce_loss = 1
        /\ LoggedNames = AllLogNames
        /\ DOMAIN ret = AllFields
\* both weights zero, and still everything is logged
C8_Witness ==
    /\ StepDone /\ ~optimize_unused /\ lambda_mm = 0 /\ lambda_lm = 0
    /\ LoggedNames = AllLogNames /\ DOMAIN ret = AllFields

EpochDone == pc = "epoch_end"
Entries(name) == { k \in 1..Len(logged) : logged[k].name = name }

\* C7: in the degenerate configuration (both weights zero, optimize_unused)
\* the steps of an epoch followed by joint_loss_epoch_end complete without
\* an error and log an epoch loss of 0.  (Stated for epochs of at least one
\* batch.)
C7_DegenerateEpochCompletes ==
    (EpochDone /\ Degenerate /\ outputs # <<>>) =>
        /\ error = "none"
        /\ LoggedValues("train_loss_epoch") = {Zero}

\* a / b and the sum of f[1..n], on the extended rationals
Quot(a, b) == Norm(a[1] * b[2], a[2] * b[1])
RECURSIVE SeqSum(_, _)
SeqSum(f, n) == IF n = 0 THEN Zero ELSE Add(SeqSum(f, n - 1), f[n])
\* sum(value x weight) / sum(weight) over the records
WeightedMean(outs, name, weight) ==
    Quot(SeqSum([i \in 1..Len(outs) |-> Mul(outs[i][name].v, outs[i][weight].v)], Len(outs)),
         SeqSum([i \in 1..Len(outs) |-> outs[i][weight].v], Len(outs)))
WeightSum(outs, weight) == SeqSum([i \in 1..Len(outs) |-> outs[i][weight].v], Len(outs))

\* C9: for a non-empty sequence of records, what joint_loss_epoch_end logs
\* for infonce_loss, image_accuracy, text_accuracy, image_entropy,
\* text_entropy and loss is the example-weighted mean
\* sum(value x batch_size) / sum(batch_size); the five contrastive means are
\* logged whenever the contrastive branch ran, the loss whenever the handler
\* completes.
C9_ExampleWeightedMeans ==
    (EpochDone /\ outputs # <<>>) =>
        /\ \A name \in ContrastiveFields \cup {"loss"} :
              \A k \in Entries("train_" \o name \o "_epoch") :
                  /\ logged[k].value = WeightedMean(outputs, name, "batch_size")
                  /\ ~logged[k].exp
        /\ (lambda_mm # 0 \/ ~optimize_unused) =>
              \A name \in ContrastiveFields :
                  Cardinality(Entries("train_" \o name \o "_epoch")) = 1
        /\ error = "none" => Cardinality(Entries("train_loss_epoch")) = 1
\* batches of sizes (4, 8, 4) with image accuracies (1, 1/2, 0): 1/2
C9_Witness ==
    /\ EpochDone /\ Len(outputs) = 3
    /\ [i \in 1..3 |-> outputs[i]["batch_size"].v] = <<Num(4), Num(8), Num(4)>>
    /\ "image_accuracy" \in DOMAIN outputs[1]
    /\ [i \in 1..3 |-> outputs[i]["image_accuracy"].v] = <<Num(1), Frac(1, 2), Num(0)>>
    /\ LoggedValues("train_image_accuracy_epoch") = {Frac(1, 2)}
    /\ Cardinality(Entries("train_loss_epoch")) = 1

Variants == {
    [loss |-> "ce_loss", count |-> "n_tokens", perplexity |-> "perplexity"],
    [loss |-> "ce_loss_wo_sos", count |-> "n_tokens_wo_sos", perplexity |-> "perplexity_wo_sos"],
    [loss |-> "ce_loss_wo_sos_eos", count |-> "n_tokens_wo_sos_eos",
     perplexity |-> "perplexity_wo_sos_eos"] }

\* C10: what joint_loss_epoch_end logs for each cross-entropy variant is the
\* token-weighted mean sum(value x count) / sum(count) with that variant's
\* own token count, followed by the perplexity exp of that mean; a variant is
\* logged whenever the captioning branch ran and its counts do not sum to 0.
C10_TokenWeightedMeans ==
    EpochDone =>
        \A x \in Variants :
            /\ \A k \in Entries("train_" \o x.loss \o "_epoch") :
                  /\ logged[k].value = WeightedMean(outputs, x.loss, x.count)
                  /\ ~logged[k].exp
                  /\ k < Len(logged)
                  /\ logged[k + 1] =
                        LogExp("train_" \o x.perplexity \o "_epoch",
                               WeightedMean(outputs, x.loss, x.count))
            /\ ((lambda_lm # 0 \/ ~optimize_unused) /\ outputs # <<>>
                    /\ WeightSum(outputs, x.count) # Zero) =>
                  Cardinality(Entries("train_" \o x.loss \o "_epoch")) = 1
\* one token of loss 2 and three tokens of loss 1: 5/4, and its perplexity
C10_Witness ==
    /\ EpochDone /\ Len(outputs) = 2 /\ "ce_loss" \in DOMAIN outputs[1]
    /\ [i \in 1..2 |-> outputs[i]["n_tokens"].v] = <<Num(1), Num(3)>>
    /\ [i \in 1..2 |-> outputs[i]["ce_loss"].v] = <<Num(2), Num(1)>>
    /\ LoggedValues("train_ce_loss_epoch") = {Frac(5, 4)}
    /\ LoggedValues("train_perplexity_epoch") = {Frac(5, 4)}
    /\ LoggedValues("train_ce_loss_wo_sos_epoch") = {Frac(4, 3)}
    /\ LoggedValues("train_ce_loss_wo_sos_eos_epoch") = {Frac(3, 2)}

\* C11: in every configuration the aggregator takes the means of a
\* branch's fields exactly when the records of the epoch carry them: it
\* never fails on a field a record lacks, every mean it logs is of a
\* field all records hold, and every field the records hold is logged
\* unless the division by its summed weights fails.
CaptioningFields == { "ce_loss" \o Suffixes[k] : k \in 1..Len(Suffixes) }
CountOf(f) == "n_tokens" \o SubSeq(f, Len("ce_loss") + 1, Len(f))
InAllRecords(f) == \A i \in 1..Len(outputs) : f \in DOMAIN outputs[i]
InSomeRecord(f) == \E i \in 1..Len(outputs) : f \in DOMAIN outputs[i]
EpochLogged(f) == Entries("train_" \o f \o "_epoch") # {}
C11_AggregatorMirrorsCombiner ==
    (EpochDone /\ outputs # <<>>) =>
        /\ error # "KeyError"
        /\ \A f \in ContrastiveFields :
              /\ EpochLogged(f) => InAllRecords(f)
              /\ InSomeRecord(f) => EpochLogged(f)
        /\ \A f \in CaptioningFields :
              /\ EpochLogged(f) => InAllRecords(f) /\ InAllRecords(CountOf(f))
              /\ (InSomeRecord(f) /\ WeightSum(outputs, CountOf(f)) # Zero
                    /\ \A g \in CaptioningFields :
                          Len(g) < Len(f) => WeightSum(outputs, CountOf(g)) # Zero)
                 => EpochLogged(f)
C11_Witness ==
    /\ EpochDone /\ Len(outputs) >= 2
    /\ \A f \in ContrastiveFields : ~InSomeRecord(f) /\ ~EpochLogged(f)
    /\ \A f \in CaptioningFields : InAllRecords(f) /\ EpochLogged(f)

\* C15 as claimed: whenever calculate_ce_loss is called, its outputs
\* argument is None, for both values of the captioning flag.
CeCalled == StepDone /\ calls.calculate_ce_loss = 1
C15_OutputsAlwaysNone == CeCalled => calls.ce_outputs = "None"
\* C15: the outputs argument of calculate_ce_loss is None when the
\* captioning flag is set or the contrastive branch did not run; with the
\* flag unset and the contrastive branch run, it is the text_outputs the
\* contrastive branch returned.
C15_OutputsNoneIffCaptioningOrFresh ==
    CeCalled =>
        /\ (captioning \/ calls.calculate_contrastive_loss = 0) => calls.ce_outputs = "None"
        /\ (~captioning /\ calls.calculate_contrastive_loss = 1) =>
               calls.ce_outputs = "text_outputs"
C15_Witness ==
    CeCalled /\ ~captioning /\ calls.calculate_contrastive_loss = 1
    /\ calls.ce_outputs = "text_outputs"

\* C16 as claimed: a step whose batch has a zero masked token count fails,
\* so no returned record holds a zero count or a loss that is not a number.
Undefined == {NaN, Inf}
C16_ZeroCountFails ==
    (StepDone /\ RunCaptioning) =>
        \A x \in Variants : ret[x.count].v # Zero /\ ret[x.loss].v \notin Undefined

\* C18: when calculate_ce_loss is called: if the captioning flag is set
\* and the contrastive branch did not run, the combiner calls the vision
\* encoder once and passes its features, L2-normalized exactly when
\* normalize_features is set; if the contrastive branch ran, its image
\* features are passed and the combiner does not call the vision encoder.
C18_ImageFeatures ==
    CeCalled =>
        /\ (captioning /\ calls.calculate_contrastive_loss = 0) =>
              /\ calls.vision_encoder = 1
              /\ calls.ce_image_features =
                    IF normalize_features THEN "fresh_normalized" ELSE "fresh"
        /\ calls.calculate_contrastive_loss = 1 =>
              /\ calls.vision_encoder = 0
              /\ calls.ce_image_features = "contrastive"
C18_Witness ==
    CeCalled /\ captioning /\ calls.calculate_contrastive_loss = 0
    /\ normalize_features /\ calls.ce_image_features = "fresh_normalized"

\* C19: whatever the order of the records, joint_loss_epoch_end logs the
\* same names with the same means (and ends the same way): for every
\* permutation of the records of the epoch, the aggregation of the permuted
\* sequence equals what was logged.
Perms(n) == { p \in [1..n -> 1..n] : \A i, j \in 1..n : p[i] = p[j] => i = j }
Permuted(outs, p) == [i \in 1..Len(outs) |-> outs[p[i]]]
SameAsLogged(r) ==
    /\ error = r.error
    /\ logged = [k \in 1..Len(r.log) |-> EpochName(r.log[k])]
C19_OrderIrrelevant ==
    EpochDone =>
        \A p \in Perms(Len(outputs)) :
            SameAsLogged(joint_loss_epoch_end(Permuted(outputs, p), "train"))
\* three records, the first and the last of different token counts and
\* losses, and token-weighted means logged
C19_Witness ==
    /\ EpochDone /\ Len(outputs) = 3 /\ error = "none"
    /\ EpochLogged("ce_loss_wo_sos_eos") /\ EpochLogged("infonce_loss")
    /\ outputs[1].n_tokens # outputs[3].n_tokens
    /\ outputs[1].ce_loss # outputs[3].ce_loss
    /\ outputs[1].batch_size # outputs[2].batch_size

\* C20: joint_loss_epoch_end on an empty sequence of records fails with
\* ZeroDivisionError and nothing was logged, in every configuration.
C20_EmptyEpochFails ==
    (EpochDone /\ outputs = <<>>) => (error = "ZeroDivisionError" /\ logged = <<>>)
C20_Witness == EpochDone /\ outputs = <<>> /\ error = "ZeroDivisionError" /\ ~Degenerate

\* C12 as claimed: with two or more evaluation dataloaders, whatever their
\* number, joint_loss_epoch_end is given exactly the records of dataloader
\* 0; with one dataloader, all its records.  (Stated for a dataloader 0 of
\* at least one batch.)
C12_FirstStreamOnly ==
    (EpochDone /\ val_outputs[1] # <<>>) => outputs = val_outputs[1]
\* with one or two dataloaders the records of dataloader 0 are what is given
C12_UpToTwoStreams ==
    (EpochDone /\ n_loaders <= 2) => outputs = val_outputs[1]

\* the trial of dataloader 1 has been processed
TrialDone == trial # NoTrial
NamedEntries(names) == { k \in 1..Len(logged) : logged[k].name \in names }
AccuracyEntries == NamedEntries({"val_accuracy", "test_accuracy"})
EntropyEntries == NamedEntries({"val_entropy", "test_entropy"})
\* C13 as claimed: in every weight configuration a trial of dataloader 1
\* logs exactly one accuracy and exactly one entropy.
C13_OneAccuracyOneEntropy ==
    TrialDone => (Cardinality(AccuracyEntries) = 1 /\ Cardinality(EntropyEntries) = 1)
\* C13: a trial of dataloader 1 logs exactly one accuracy and exactly one
\* entropy when lambda_mm is non-zero or optimize_unused is off; with
\* lambda_mm = 0 and optimize_unused on it computes and logs nothing and
\* returns an empty record.
C13_OneAccuracyOneEntropyIfScored ==
    TrialDone =>
        IF lambda_mm # 0 \/ ~optimize_unused
        THEN /\ Cardinality(AccuracyEntries) = 1 /\ Cardinality(EntropyEntries) = 1
             /\ pred # NoPred
        ELSE logged = <<>> /\ ret = <<>> /\ pred = NoPred /\ error = "none"
C13_Witness ==
    /\ TrialDone /\ lambda_mm = 0 /\ ~optimize_unused /\ error = "none"
    /\ Cardinality(AccuracyEntries) = 1 /\ Cardinality(EntropyEntries) = 1

\* C14: the logged accuracy is 1 when the arg-max of the first row of the
\* text-to-image logits is index 0 and 0 otherwise: pred indexes a maximal
\* entry of that row, every accuracy logged for the trial is 1 exactly when
\* pred is 0, a row whose first entry is the only maximum gives 1, a row
\* whose first entry is not maximal gives 0; [5, 1, 0] gives 1 and
\* [1, 5, 0] gives 0.
Row == trial.logits_per_text[1]
AccuracyValues ==
    { logged[k].value : k \in { j \in 1..Len(logged) : "entropy" \notin DOMAIN logged[j] } }
C14_AccuracyIsArgmaxZero ==
    (TrialDone /\ AccuracyEntries # {}) =>
        /\ pred \in 0..(Len(Row) - 1)
        /\ \A k \in DOMAIN Row : Row[pred + 1] >= Row[k]
        /\ AccuracyValues = { IF pred = 0 THEN <<1, 1>> ELSE <<0, 1>> }
        /\ (\A k \in DOMAIN Row : k # 1 => Row[1] > Row[k]) => AccuracyValues = { <<1, 1>> }
        /\ (\E k \in DOMAIN Row : Row[k] > Row[1]) => AccuracyValues = { <<0, 1>> }
        /\ Row = <<5, 1, 0>> => AccuracyValues = { <<1, 1>> }
        /\ Row = <<1, 5, 0>> => AccuracyValues = { <<0, 1>> }
C14_Witness ==
    /\ TrialDone /\ Row = <<1, 5, 0>> /\ pred = 1
    /\ AccuracyEntries # {} /\ AccuracyValues = { <<0, 1>> }

\* C17: when the query token id of a trial is not in idx2word, no accuracy
\* is logged under a per-category key; and when the trial is scored
\* (lambda_mm non-zero or optimize_unused off) the step ends with the
\* lookup's exception, after the accuracy and the entropy of the trial were
\* logged, and returns no record.
CategoryEntries == { k \in 1..Len(logged) : k \notin AccuracyEntries \cup EntropyEntries }
C17_UnknownCategoryAborts ==
    (TrialDone /\ trial.y \notin DOMAIN idx2word) =>
        /\ CategoryEntries = {}
        /\ (lambda_mm # 0 \/ ~optimize_unused) =>
              /\ error = "KeyError" /\ pc = "aborted"
              /\ val_outputs[2] = <<>>
              /\ Cardinality(AccuracyEntries) = 1 /\ Cardinality(EntropyEntries) = 1
C17_Witness ==
    /\ TrialDone /\ trial.y \notin DOMAIN idx2word /\ lambda_mm # 0
    /\ error = "KeyError" /\ CategoryEntries = {}

\* C21 as claimed: compute_triplet_loss returns on every batch of one or
\* more examples, under fair sampling.
C21_Terminates == <>(tpc = "done")
\* every impostor used is an index of the batch other than its example,
\* the same for the image and the utterance
C21_ImpostorDiffers ==
    \A k \in 1..Len(triplets) :
        /\ triplets[k].image_imp_idx \in 0..(batch_size - 1)
        /\ triplets[k].image_imp_idx # k - 1
        /\ triplets[k].utterance_imp_idx = triplets[k].image_imp_idx
\* batches of two or more examples are done in the end
C21_TerminatesFromTwo == (batch_size >= 2) ~> (tpc = "done")

\* C22: for integer start_timestamp <= end_timestamp and an utterance of
\* k >= 1 sub-utterances, _preprocess_utterance returns k lists of
\* timestamps and k frame counts; every list holds between 1 and
\* MAX_FRAMES_PER_UTTERANCE consecutive integers, as many as its frame
\* count, begins at start + (j - 1) * (end - start) / k with the fraction
\* dropped, and lies in [start_timestamp, end_timestamp].
Preprocessed == preprocessed # NotCalled
SubUtterances == Cardinality({ j \in 1..Len(pieces) : pieces[j] # "" })
\* t is n / k with its fraction dropped
Truncates(t, n, k) ==
    IF n >= 0 THEN t * k <= n /\ n < (t + 1) * k
    ELSE (t - 1) * k < n /\ n <= t * k
====
